---------------------------- MODULE Spec2Model ----------------------------
(* Model of src/app/(home)/settings/page.tsx: the "Replace API key" dialog *)
(* of PrivacySettings and the three pure helpers it uses (maskKey,         *)
(* firstDiff, levenshtein).                                                *)
(*                                                                         *)
(* A JavaScript string is a sequence of characters.  The stored key may   *)
(* also be null (useAppSettings may hold no key); null is the one-element  *)
(* sequence Null, whose element is no character of Alphabet.               *)
EXTENDS Integers, Sequences, FiniteSets, TLC

\* ------------------------------------------------------------------ bounds
\* Longest key the model types or stores.
MaxLen == 3
\* Cap of the setApiKey call counter (the code calls it at most once a session).
MaxCalls == 2
\* Characters of the model's keys.
Alphabet == {"a", "b"}
\* Longest run of equal characters put before and after a firstDiff argument.
MaxPad == 3

\* --------------------------------------------------------------- JS values
Null == <<"null">>
Undefined == "undefined"
\* JavaScript's Infinity (no distance is negative).
Infinity == -1

RECURSIVE StringsOfLen(_)
StringsOfLen(n) ==
    IF n = 0 THEN {<<>>}
    ELSE {Append(s, c) : s \in StringsOfLen(n - 1), c \in Alphabet}

\* Every string of at most n characters.
StringsUpTo(n) == UNION {StringsOfLen(k) : k \in 0..n}

Strings == StringsUpTo(MaxLen)

\* n times the character "a".
RECURSIVE Pad(_)
Pad(n) == IF n = 0 THEN <<>> ELSE <<"a">> \o Pad(n - 1)

\* Arguments of firstDiff: a bounded string between two runs of "a", so that
\* two arguments can share more than 3 leading characters and go on for
\* more than 4 characters after their first difference.
DiffStrings ==
    {Pad(p) \o s \o Pad(q) : p \in 0..MaxPad, s \in Strings, q \in 0..MaxPad}

\* !key of JavaScript: null and "" are falsy, every other string is truthy.
Falsy(key) == key = Null \/ key = <<>>

Min2(x, y) == IF x <= y THEN x ELSE y
Max2(x, y) == IF x >= y THEN x ELSE y

\* s[i] of JavaScript, 0-based: undefined past the end.
CharAt(s, i) == IF i >= 0 /\ i < Len(s) THEN s[i + 1] ELSE Undefined

\* s.slice(start, end) of JavaScript for 0 <= start, 0 <= end.
Slice(s, start, end) == SubSeq(s, Min2(start, Len(s)) + 1, Min2(end, Len(s)))

\* isFinite(x) of JavaScript on a number.
isFinite(x) == x # Infinity

\* x <= y of JavaScript where x may be Infinity and y is finite.
NumLeq(x, y) == IF x = Infinity THEN FALSE ELSE x <= y

\* ------------------------------------------------------------ pure helpers

\* maskKey(key, suffix): "-" placeholder for a falsy key, else the marker
\* "sk-..." followed by key.slice(-max(0, min(suffix, key.length))).
\* slice(-0) is slice(0): the whole string.
Placeholder == <<"PLACEHOLDER">>
PrefixMarker == <<"s", "k", "-", "ELLIPSIS">>
maskKey(key, suffix) ==
    IF Falsy(key) THEN Placeholder
    ELSE LET k == Max2(0, Min2(suffix, Len(key)))
             vis == IF k = 0 THEN key ELSE Slice(key, Len(key) - k, Len(key))
         IN  PrefixMarker \o vis

\* firstDiff's "return null".
NoDiff == [index |-> -1, left |-> <<>>, right |-> <<>>]

\* Mutant of firstDiffFrom: the window ends at i + 3.
RECURSIVE firstDiffFrom_endOffByOne(_, _, _)
firstDiffFrom_endOffByOne(a, b, i) ==
    LET max == Max2(Len(a), Len(b))
    IN  IF i >= max THEN NoDiff
        ELSE IF CharAt(a, i) # CharAt(b, i)
             THEN LET start == Max2(0, i - 3)
                      end == Min2(max, i + 3)
                  IN  [index |-> i,
                       left |-> Slice(a, start, end),
                       right |-> Slice(b, start, end)]
             ELSE firstDiffFrom_endOffByOne(a, b, i + 1)

\* The for loop of firstDiff from index i on.
RECURSIVE firstDiffFrom(_, _, _)
firstDiffFrom(a, b, i) ==
    LET max == Max2(Len(a), Len(b))
    IN  IF i >= max THEN NoDiff
        ELSE IF CharAt(a, i) # CharAt(b, i)
             THEN LET start == Max2(0, i - 3)
                      end == Min2(max, i + 4)
                  IN  [index |-> i,
                       left |-> Slice(a, start, end),
                       right |-> Slice(b, start, end)]
             ELSE firstDiffFrom(a, b, i + 1)

\* Mutant of firstDiff: the loop runs to the shorter length only.
firstDiff_sharedPositionsOnly(a, b) ==
    LET min == Min2(Len(a), Len(b))
    IN  firstDiffFrom(SubSeq(a, 1, min), SubSeq(b, 1, min), 0)

firstDiff(a, b) == firstDiffFrom(a, b, 0)

\* dp after "Array.from(...fill(0))" and the two border loops.
dpBorders(m, n) ==
    [i \in 0..m |-> [j \in 0..n |-> IF j = 0 THEN i ELSE IF i = 0 THEN j ELSE 0]]

Min3(x, y, z) == Min2(x, Min2(y, z))

\* Mutant of dpCell: a deletion costs 2, an insertion 1.
dpCell_deletionCostsTwo(a, b, dp, i, j) ==
    LET cost == IF a[i] = b[j] THEN 0 ELSE 1
    IN  Min3(dp[i - 1][j] + 2, dp[i][j - 1] + 1, dp[i - 1][j - 1] + cost)

\* Mutant of dpCell: a substitution always costs 1, also between equal characters.
dpCell_costAlwaysOne(a, b, dp, i, j) ==
    Min3(dp[i - 1][j] + 1, dp[i][j - 1] + 1, dp[i - 1][j - 1] + 1)

\* One cell of the nested loops: dp[i][j] = Math.min(deletion, insertion, substitution).
dpCell(a, b, dp, i, j) ==
    LET cost == IF a[i] = b[j] THEN 0 ELSE 1
    IN  Min3(dp[i - 1][j] + 1, dp[i][j - 1] + 1, dp[i - 1][j - 1] + cost)

\* The nested loops from cell (i, j) on, row by row.
RECURSIVE dpFill(_, _, _, _, _)
dpFill(a, b, dp, i, j) ==
    IF i > Len(a) THEN dp
    ELSE IF j > Len(b) THEN dpFill(a, b, dp, i + 1, 1)
    ELSE dpFill(a, b, [dp EXCEPT ![i][j] = dpCell(a, b, dp, i, j)], i, j + 1)

levenshtein(a, b) ==
    LET m == Len(a)
        n == Len(b)
    IN  IF m = 0 THEN n
        ELSE IF n = 0 THEN m
        ELSE dpFill(a, b, dpBorders(m, n), 1, 1)[m][n]

\* ------------------------------------------------------------------- state
VARIABLES
    apiKey,            \* useAppSettings: the stored key, Null or a string
    open,              \* useState(false)
    newKey,            \* useState("")
    confirmKey,        \* useState("")
    ackReplace,        \* useState(false)
    forceSmallChange,  \* useState(false)
    setApiKeyCalls,    \* history: calls of setApiKey since the dialog last opened
    everClosed,        \* history: the dialog has been open and was closed again
    overrideCarried,   \* history (SpecSession): in this session the candidate
                       \* was edited after the override was last switched on
    call,              \* helper specification: the helper called last, or "none"
    args,              \* its arguments
    ret                \* what it returned

staging == <<newKey, confirmKey, ackReplace, forceSmallChange>>
helper == <<call, args, ret>>
vars == <<apiKey, open, newKey, confirmKey, ackReplace, forceSmallChange,
          setApiKeyCalls, everClosed, overrideCarried, call, args, ret>>

\* ---------------------------------------------------------- derived checks
\* Mutant of matches: compares without requiring both fields to be entered.
matches_withoutBothEntered == newKey = confirmKey

bothEntered == Len(newKey) > 0 /\ Len(confirmKey) > 0
matches == bothEntered /\ newKey = confirmKey

\* Mutant of distanceFromCurrent: tests the stored key for null only, so an
\* empty stored key or an empty candidate still gets a distance.
distanceFromCurrent_nullOnly ==
    IF apiKey = Null THEN Infinity
    ELSE levenshtein(apiKey, newKey)

distanceFromCurrent ==
    IF Falsy(apiKey) \/ Falsy(newKey) THEN Infinity
    ELSE levenshtein(apiKey, newKey)

SMALL_CHANGE_THRESHOLD == 2

\* Mutant of suspiciousSmallEdit: "<" in place of "<=".
suspiciousSmallEdit_strict ==
    isFinite(distanceFromCurrent)
    /\ distanceFromCurrent < SMALL_CHANGE_THRESHOLD

suspiciousSmallEdit ==
    isFinite(distanceFromCurrent)
    /\ NumLeq(distanceFromCurrent, SMALL_CHANGE_THRESHOLD)

diff ==
    IF Falsy(apiKey) \/ Falsy(newKey) THEN NoDiff
    ELSE firstDiff(apiKey, newKey)

\* Mutant of canSave: the override wins over the small-edit test from the
\* wrong side ("&&" for "||").
canSave_overrideRequired ==
    matches /\ ackReplace /\ (~suspiciousSmallEdit /\ forceSmallChange)

canSave == matches /\ ackReplace /\ (~suspiciousSmallEdit \/ forceSmallChange)

\* The small-change guard panel is rendered (it holds the forceSmall switch).
guardPanel == ~Falsy(apiKey) /\ ~Falsy(newKey) /\ suspiciousSmallEdit

\* ----------------------------------------------------------------- actions
helperIdle == call = "none" /\ args = <<>> /\ ret = 0

Init ==
    /\ apiKey \in {Null} \cup Strings
    /\ open = FALSE
    /\ newKey = <<>>
    /\ confirmKey = <<>>
    /\ ackReplace = FALSE
    /\ forceSmallChange = FALSE
    /\ setApiKeyCalls = 0
    /\ everClosed = FALSE
    /\ overrideCarried = FALSE
    /\ helperIdle

\* Mutant of onOpenChange: resets the two inputs on open but not the switches.
onOpenChange_keepsSwitches(next) ==
    /\ next # open
    /\ open' = next
    /\ IF next
       THEN /\ newKey' = <<>>
            /\ confirmKey' = <<>>
            /\ setApiKeyCalls' = 0
            /\ UNCHANGED <<ackReplace, forceSmallChange, everClosed>>
       ELSE /\ everClosed' = TRUE
            /\ UNCHANGED <<staging, setApiKeyCalls>>
    /\ UNCHANGED <<apiKey, call, args, ret>>

\* Dialog's onOpenChange: the trigger (closed) or a dismissal (open); a
\* controlled Dialog reports only a change of its open prop.
onOpenChange(next) ==
    /\ next # open
    /\ open' = next
    /\ IF next
       THEN /\ newKey' = <<>>
            /\ confirmKey' = <<>>
            /\ ackReplace' = FALSE
            /\ forceSmallChange' = FALSE
            /\ setApiKeyCalls' = 0
            /\ UNCHANGED everClosed
       ELSE /\ everClosed' = TRUE
            /\ UNCHANGED <<staging, setApiKeyCalls>>
    /\ UNCHANGED <<apiKey, helper>>

\* Mutant of cancelOnClick: Cancel also clears the staging state.
cancelOnClick_resets ==
    /\ open
    /\ open' = FALSE
    /\ everClosed' = TRUE
    /\ newKey' = <<>>
    /\ confirmKey' = <<>>
    /\ ackReplace' = FALSE
    /\ forceSmallChange' = FALSE
    /\ UNCHANGED <<apiKey, setApiKeyCalls, call, args, ret>>

\* Cancel button: onClick={() => setOpen(false)}.
cancelOnClick ==
    /\ open
    /\ open' = FALSE
    /\ everClosed' = TRUE
    /\ UNCHANGED <<apiKey, staging, setApiKeyCalls, helper>>

\* Mutant of newKeyOnChange: a new candidate switches the override off.
newKeyOnChange_clearsOverride(value) ==
    /\ open
    /\ newKey' = value
    /\ forceSmallChange' = FALSE
    /\ UNCHANGED <<apiKey, open, confirmKey, ackReplace,
                   setApiKeyCalls, everClosed, call, args, ret>>

\* New key input: onChange={(e) => setNewKey(e.target.value)}.
newKeyOnChange(value) ==
    /\ open
    /\ newKey' = value
    /\ UNCHANGED <<apiKey, open, confirmKey, ackReplace, forceSmallChange,
                   setApiKeyCalls, everClosed, helper>>

\* Confirm input: onChange={(e) => setConfirmKey(e.target.value)}.
confirmKeyOnChange(value) ==
    /\ open
    /\ confirmKey' = value
    /\ UNCHANGED <<apiKey, open, newKey, ackReplace, forceSmallChange,
                   setApiKeyCalls, everClosed, helper>>

\* ackReplace switch: onCheckedChange={setAckReplace}.
ackReplaceOnCheckedChange ==
    /\ open
    /\ ackReplace' = ~ackReplace
    /\ UNCHANGED <<apiKey, open, newKey, confirmKey, forceSmallChange,
                   setApiKeyCalls, everClosed, helper>>

\* forceSmall switch, rendered inside the small-change guard panel.
forceSmallOnCheckedChange ==
    /\ open
    /\ guardPanel
    /\ forceSmallChange' = ~forceSmallChange
    /\ UNCHANGED <<apiKey, open, newKey, confirmKey, ackReplace,
                   setApiKeyCalls, everClosed, helper>>

\* Mutant of handleSave: no "if (!canSave) return".
handleSave_unguarded ==
    /\ open
    /\ setApiKeyCalls < MaxCalls
    /\ apiKey' = newKey
    /\ setApiKeyCalls' = setApiKeyCalls + 1
    /\ open' = FALSE
    /\ everClosed' = TRUE
    /\ UNCHANGED <<newKey, confirmKey, ackReplace, forceSmallChange, call, args, ret>>

\* Mutant of handleSave: no "setOpen(false)".
handleSave_staysOpen ==
    /\ open
    /\ setApiKeyCalls < MaxCalls
    /\ IF ~canSave
       THEN UNCHANGED vars
       ELSE /\ apiKey' = newKey
            /\ setApiKeyCalls' = setApiKeyCalls + 1
            /\ UNCHANGED <<open, everClosed, newKey, confirmKey, ackReplace,
                           forceSmallChange, call, args, ret>>

\* handleSave, reached from the Save key button of the open dialog.
handleSave ==
    /\ open
    /\ setApiKeyCalls < MaxCalls
    /\ IF ~canSave
       THEN UNCHANGED vars
       ELSE /\ apiKey' = newKey
            /\ setApiKeyCalls' = setApiKeyCalls + 1
            /\ open' = FALSE
            /\ everClosed' = TRUE
            /\ UNCHANGED <<staging, helper>>

\* The handlers; the history of the override is not followed (SpecSession does).
Next ==
    \/ (\E next \in BOOLEAN : onOpenChange(next)) /\ UNCHANGED overrideCarried
    \/ cancelOnClick /\ UNCHANGED overrideCarried
    \/ (\E value \in Strings : newKeyOnChange(value)) /\ UNCHANGED overrideCarried
    \/ (\E value \in Strings : confirmKeyOnChange(value)) /\ UNCHANGED overrideCarried
    \/ ackReplaceOnCheckedChange /\ UNCHANGED overrideCarried
    \/ forceSmallOnCheckedChange /\ UNCHANGED overrideCarried
    \/ handleSave /\ UNCHANGED overrideCarried

Spec == Init /\ [][Next]_vars

\* ------------------------------------------------- sessions with history
\* The history of the override over a step: off outside a session and when
\* a session starts, on once the candidate is edited with the override
\* switched on, off again when the switch is used.
trackOverride ==
    overrideCarried' =
        IF ~open \/ ~open' THEN FALSE
        ELSE IF forceSmallChange /\ newKey' # newKey THEN TRUE
        ELSE IF forceSmallChange' # forceSmallChange THEN FALSE
        ELSE overrideCarried

\* The same handlers as Next, with the history of the override followed.
NextSession ==
    \/ (\E next \in BOOLEAN : onOpenChange(next)) /\ trackOverride
    \/ cancelOnClick /\ trackOverride
    \/ (\E value \in Strings : newKeyOnChange(value)) /\ trackOverride
    \/ (\E value \in Strings : confirmKeyOnChange(value)) /\ trackOverride
    \/ ackReplaceOnCheckedChange /\ trackOverride
    \/ forceSmallOnCheckedChange /\ trackOverride
    \/ handleSave /\ trackOverride

SpecSession == Init /\ [][NextSession]_vars

\* ---------------------------------------------------- helper specification
\* One call of a pure helper on any bounded strings, empty strings included
\* (the component itself calls firstDiff and levenshtein on non-empty keys only).
InitHelpers ==
    /\ apiKey = Null
    /\ open = FALSE
    /\ newKey = <<>>
    /\ confirmKey = <<>>
    /\ ackReplace = FALSE
    /\ forceSmallChange = FALSE
    /\ setApiKeyCalls = 0
    /\ everClosed = FALSE
    /\ overrideCarried = FALSE
    /\ helperIdle

workflow == <<apiKey, open, newKey, confirmKey, ackReplace, forceSmallChange,
              setApiKeyCalls, everClosed, overrideCarried>>

callLevenshtein(a, b) ==
    /\ call = "none"
    /\ call' = "levenshtein"
    /\ args' = <<a, b>>
    /\ ret' = levenshtein(a, b)
    /\ UNCHANGED workflow

callFirstDiff(a, b) ==
    /\ call = "none"
    /\ call' = "firstDiff"
    /\ args' = <<a, b>>
    /\ ret' = firstDiff(a, b)
    /\ UNCHANGED workflow

callMaskKey(key, suffix) ==
    /\ call = "none"
    /\ call' = "maskKey"
    /\ args' = <<key, suffix>>
    /\ ret' = maskKey(key, suffix)
    /\ UNCHANGED workflow

\* One call only: the guard stands before the choice of the arguments.
NextHelpers ==
    \/ call = "none" /\ \E a \in Strings, b \in Strings : callLevenshtein(a, b)
    \/ call = "none" /\ \E a \in DiffStrings, b \in DiffStrings : callFirstDiff(a, b)
    \/ call = "none" /\ \E key \in {Null} \cup Strings, suffix \in 0..(MaxLen + 1) :
                            callMaskKey(key, suffix)

SpecHelpers == InitHelpers /\ [][NextHelpers]_vars

\* --------------------------------------------- workflow and helpers together
\* The dialog workflow, and beside it one helper call made before the
\* dialog is touched: the behaviours of Spec and those of SpecHelpers.
NextBoth ==
    \/ call = "none" /\ Next
    \/ InitHelpers /\ NextHelpers

SpecBoth == Init /\ [][NextBoth]_vars

\* ------------------------------------------------- reference edit distance
\* The edit distance by its definition, independent of the dynamic
\* programme: the least number of single-character edits leading from a to b.
Remove(s, i) == SubSeq(s, 1, i - 1) \o SubSeq(s, i + 1, Len(s))
InsertAt(s, i, c) == SubSeq(s, 1, i) \o <<c>> \o SubSeq(s, i + 1, Len(s))

\* Every string one deletion, substitution or insertion away from s
\* (intermediate strings are kept within MaxLen + 1 characters).
OneEdit(s) ==
    {Remove(s, i) : i \in 1..Len(s)}
    \cup {[s EXCEPT ![i] = c] : i \in 1..Len(s), c \in Alphabet}
    \cup (IF Len(s) <= MaxLen
          THEN {InsertAt(s, i, c) : i \in 0..Len(s), c \in Alphabet}
          ELSE {})

RECURSIVE EditsToReach(_, _, _)
EditsToReach(within, b, k) ==
    IF b \in within THEN k
    ELSE EditsToReach(within \cup UNION {OneEdit(s) : s \in within}, b, k + 1)

MinEdits(a, b) == EditsToReach({a}, b, 0)

\* MinEdits of every pair of bounded strings.
MinEditsTable == [p \in Strings \X Strings |-> MinEdits(p[1], p[2])]

\* ------------------------------------------------------------------ claims
clean ==
    /\ newKey = <<>>
    /\ confirmKey = <<>>
    /\ ackReplace = FALSE
    /\ forceSmallChange = FALSE

\* A step in which handleSave called setApiKey.
saveStep == setApiKeyCalls' = setApiKeyCalls + 1

\* C1: in every reachable state canSave is matches AND acknowledged AND
\* (NOT smallEditDetected OR smallEditOverridden), each of the four read off
\* the current newKey, confirmKey, ackReplace, forceSmallChange and stored
\* key: matching is non-empty equality, a small edit is a stored key and a
\* candidate that are both non-empty and at most 2 edits apart.
C1_CanSaveIsGateFormula ==
    LET keysMatch == newKey # <<>> /\ confirmKey # <<>> /\ newKey = confirmKey
        acknowledged == ackReplace
        smallEditDetected ==
            /\ apiKey # Null /\ apiKey # <<>> /\ newKey # <<>>
            /\ MinEditsTable[<<apiKey, newKey>>] <= 2
        smallEditOverridden == forceSmallChange
    IN  canSave <=>
          (keysMatch /\ acknowledged /\ (~smallEditDetected \/ smallEditOverridden))

\* C1 witness: a matching, acknowledged small edit that the override lets through.
C1_Witness ==
    /\ open /\ matches /\ ackReplace /\ suspiciousSmallEdit /\ forceSmallChange
    /\ apiKey # newKey
    /\ canSave

\* C2: the stored key changes, and setApiKey is called, only in a save step
\* taken from an open dialog where canSave holds (matches, acknowledged, and
\* not a small edit or overridden), and it then stores the candidate; a save
\* attempt while canSave is false leaves the stored key and the open flag as
\* they were.
C2_StoreChangesOnlyBySave ==
    [][ /\ (apiKey' # apiKey \/ setApiKeyCalls' > setApiKeyCalls) =>
             /\ open /\ canSave
             /\ matches /\ ackReplace
             /\ (~suspiciousSmallEdit \/ forceSmallChange)
             /\ apiKey' = newKey
        /\ (handleSave /\ ~canSave) => UNCHANGED <<apiKey, open>>
      ]_vars

\* C2 witness: a key was saved in the session that just closed.
C2_Witness == ~open /\ setApiKeyCalls = 1 /\ everClosed

C3_WitnessBlocked ==
    /\ open /\ apiKey # Null /\ apiKey # <<>> /\ newKey # <<>>
    /\ newKey = confirmKey /\ ackReplace /\ ~forceSmallChange
    /\ MinEditsTable[<<apiKey, newKey>>] \in 1..2
    /\ ~canSave

\* C4: with no stored key (null or "") or an empty candidate the distance is
\* Infinity, no small edit is detected and there is no divergence report;
\* with no stored key canSave is matches AND acknowledged.
C4_AbsentKeyDisablesGuard ==
    /\ (apiKey = Null \/ apiKey = <<>> \/ newKey = <<>>) =>
          /\ distanceFromCurrent = Infinity
          /\ ~suspiciousSmallEdit
          /\ diff = NoDiff
    /\ (apiKey = Null \/ apiKey = <<>>) =>
          (canSave <=> (newKey # <<>> /\ newKey = confirmKey /\ ackReplace))

\* C4 witness: no stored key, and a short candidate is savable on match and
\* acknowledgement alone.
C4_Witness ==
    /\ open /\ apiKey = <<>> /\ Len(newKey) \in 1..2
    /\ matches /\ ackReplace /\ ~forceSmallChange /\ canSave

\* C5: matches is non-empty equality of candidate and confirmation, and
\* every value handed to setApiKey is a non-empty string equal to the
\* candidate and to the confirmation of the state the save was taken in.
C5_SavedValueIsConfirmedCandidate ==
    [][ /\ matches <=> (newKey # <<>> /\ confirmKey # <<>> /\ newKey = confirmKey)
        /\ saveStep =>
             /\ apiKey' = newKey /\ apiKey' = confirmKey
             /\ apiKey' # <<>> /\ apiKey' # Null
      ]_vars

\* C5 witness: the stored key is the candidate and the confirmation just saved.
C5_Witness ==
    /\ ~open /\ setApiKeyCalls = 1
    /\ apiKey = newKey /\ apiKey = confirmKey /\ Len(apiKey) > 0

\* C6: every step from closed to open ends with empty candidate and
\* confirmation and both switches off.
C6_OpenStartsClean == [][(~open /\ open') => clean']_vars

\* C6 witness: the dialog is open and clean after an earlier session.
C6_Witness == open /\ everClosed /\ clean /\ setApiKeyCalls = 0

\* C7 as claimed: right after a close without saving the staging state is empty.
C7_CloseDiscardsStaging == [][(open /\ ~open' /\ ~saveStep) => clean']_vars

\* C7 amended: a close without saving changes the open flag only (the staging
\* state stays as typed), and from a closed dialog the only step is the
\* opening, which leaves the staging state clean and the stored key alone.
C7_CloseKeepsStagingUntilOpen ==
    [][ /\ (open /\ ~open' /\ ~saveStep) =>
             UNCHANGED <<apiKey, newKey, confirmKey, ackReplace, forceSmallChange>>
        /\ ~open => (open' /\ clean' /\ apiKey' = apiKey)
      ]_vars

\* C7 witness: closed without a save, the typed keys and the switch still set.
C7_Witness ==
    /\ ~open /\ everClosed /\ setApiKeyCalls = 0
    /\ newKey # <<>> /\ confirmKey # <<>> /\ ackReplace

\* C8 as claimed: right after a successful save the staging state is empty.
C8_SaveResetsStaging == [][saveStep => (apiKey' = newKey /\ ~open' /\ clean')]_vars

\* C8 amended: a successful save stores the candidate and closes the dialog,
\* leaving candidate, confirmation and both switches as they were.
C8_SaveStoresAndCloses ==
    [][saveStep =>
         /\ canSave /\ open
         /\ apiKey' = newKey
         /\ ~open'
         /\ UNCHANGED <<newKey, confirmKey, ackReplace, forceSmallChange>>
      ]_vars

\* C8 witness: closed by a save, the saved candidate still in the inputs.
C8_Witness ==
    /\ ~open /\ setApiKeyCalls = 1 /\ apiKey = newKey
    /\ newKey # <<>> /\ confirmKey # <<>> /\ ackReplace

\* C9: setApiKey is called at most once between two openings, and a dialog
\* in which it was called is closed.
C9_AtMostOneSavePerSession ==
    /\ setApiKeyCalls <= 1
    /\ setApiKeyCalls = 1 => ~open

\* C9 witness: the one call of a session has happened.
C9_Witness == setApiKeyCalls = 1

\* C10: levenshtein(a, b) is the least number of single-character
\* insertions, deletions and substitutions turning a into b; against the
\* empty string it is the other string's length.
C10_LevenshteinIsMinEdits ==
    call = "levenshtein" =>
        /\ ret = MinEditsTable[<<args[1], args[2]>>]
        /\ args[1] = <<>> => ret = Len(args[2])
        /\ args[2] = <<>> => ret = Len(args[1])

\* C10 witness: two non-empty strings of different lengths, 2 edits apart.
C10_Witness ==
    /\ call = "levenshtein" /\ ret = 2
    /\ args[1] # <<>> /\ args[2] # <<>> /\ Len(args[1]) # Len(args[2])

\* C11: levenshtein is symmetric: levenshtein(a, b) = levenshtein(b, a).
C11_LevenshteinSymmetric ==
    call = "levenshtein" => ret = levenshtein(args[2], args[1])

\* C11 witness: a call on strings of different lengths and contents, whose
\* swapped call runs the loops over a table of the other shape.
C11_Witness ==
    /\ call = "levenshtein" /\ ret >= 2
    /\ Len(args[1]) > Len(args[2]) /\ Len(args[2]) >= 1
    /\ args[1][1] # args[2][1]

\* Position k (0-based) holds different characters in a and b; a position
\* past the end of one of them counts as different.
DiffersAt(a, b, k) == k >= Len(a) \/ k >= Len(b) \/ a[k + 1] # b[k + 1]

\* a is a strict prefix of b, or b of a.
StrictPrefix(a, b) ==
    LET min == Min2(Len(a), Len(b))
    IN  Len(a) # Len(b) /\ SubSeq(a, 1, min) = SubSeq(b, 1, min)

\* C12: firstDiff(a, b) is null exactly when a = b; otherwise its index is
\* the least position where a and b differ, every position below it holding
\* equal characters, and it is min(len(a), len(b)) when one string is a
\* strict prefix of the other.
C12_FirstDiffIsFirstDifference ==
    call = "firstDiff" =>
        LET a == args[1]
            b == args[2]
        IN  /\ (ret = NoDiff) <=> (a = b)
            /\ a # b =>
                 /\ ret.index \in 0..(Max2(Len(a), Len(b)) - 1)
                 /\ DiffersAt(a, b, ret.index)
                 /\ \A k \in 0..(ret.index - 1) : ~DiffersAt(a, b, k)
            /\ StrictPrefix(a, b) => ret.index = Min2(Len(a), Len(b))

\* C12 witness: a non-empty strict prefix, reported at the shorter length.
C12_Witness ==
    /\ call = "firstDiff"
    /\ StrictPrefix(args[1], args[2])
    /\ Len(args[1]) >= 1 /\ Len(args[1]) < Len(args[2])
    /\ ret.index = Len(args[1])

\* The characters of s at the 0-based positions lo .. hi - 1 that s has.
RefSub(s, lo, hi) ==
    [n \in 1..Max2(0, Min2(hi, Len(s)) - lo) |-> s[lo + n]]

\* C13: a report at index i carries the characters of a and of b at the
\* positions max(0, i-3) .. min(max(len(a), len(b)), i+4) - 1 that each
\* string has; each context has at most 7 characters, and the two agree on
\* their first i - max(0, i-3) characters.
C13_ContextWindows ==
    (call = "firstDiff" /\ ret # NoDiff) =>
        LET a == args[1]
            b == args[2]
            i == ret.index
            lo == Max2(0, i - 3)
            hi == Min2(Max2(Len(a), Len(b)), i + 4)
        IN  /\ ret.left = RefSub(a, lo, hi)
            /\ ret.right = RefSub(b, lo, hi)
            /\ Len(ret.left) <= 7 /\ Len(ret.right) <= 7
            /\ \A n \in 1..(i - lo) :
                 /\ n <= Len(ret.left) /\ n <= Len(ret.right)
                 /\ ret.left[n] = ret.right[n]

\* C13 witness: the window is cut on both sides (it starts after position 0
\* and ends before the longer string does), and the shorter string ends
\* inside it.
C13_Witness ==
    /\ call = "firstDiff" /\ ret # NoDiff
    /\ ret.index > 3
    /\ ret.index + 4 < Max2(Len(args[1]), Len(args[2]))
    /\ Len(ret.left) = 7 /\ Len(ret.right) \in 4..6

\* The last k characters of s, for 0 <= k <= Len(s).
LastChars(s, k) == [n \in 1..k |-> s[Len(s) - k + n]]

\* What maskKey's result shows after the prefix marker.
Shown(masked) == SubSeq(masked, Len(PrefixMarker) + 1, Len(masked))

\* C14: maskKey returns the placeholder for a null or empty key, and for a
\* non-empty key and every suffix >= 0 the prefix marker followed by exactly
\* the last min(suffix, length) characters of the key.
C14_MaskShowsExactSuffix ==
    call = "maskKey" =>
        LET key == args[1]
            suffix == args[2]
        IN  IF key = Null \/ key = <<>>
            THEN ret = Placeholder
            ELSE ret = PrefixMarker \o LastChars(key, Min2(suffix, Len(key)))

\* C14 away from suffix 0: the same statement for every suffix >= 1.
C14_MaskShowsExactSuffixWhenPositive ==
    (call = "maskKey" /\ args[2] >= 1) => C14_MaskShowsExactSuffix

\* C14 at suffix 0: the whole key follows the prefix marker.
C14_MaskAtZeroShowsWholeKey ==
    (call = "maskKey" /\ args[2] = 0 /\ args[1] # Null /\ args[1] # <<>>)
    => ret = PrefixMarker \o args[1]

\* C15: what maskKey shows after the prefix marker has at most suffix
\* characters, so a key longer than suffix is never shown whole.
C15_MaskShowsAtMostSuffix ==
    (call = "maskKey" /\ args[1] # Null /\ args[1] # <<>>) =>
        /\ Len(Shown(ret)) <= args[2]
        /\ Len(args[1]) > args[2] => Shown(ret) # args[1]

\* C15 away from suffix 0: the same statement for every suffix >= 1.
C15_MaskShowsAtMostSuffixWhenPositive ==
    (call = "maskKey" /\ args[2] >= 1) => C15_MaskShowsAtMostSuffix

\* C16: suspiciousSmallEdit holds exactly when the stored key and the
\* candidate are both non-empty and 1 or 2 edits apart; a candidate equal
\* to the stored key (0 edits) is not a small edit.
C16_SmallEditIsOneOrTwoEdits ==
    suspiciousSmallEdit <=>
        /\ apiKey # Null /\ apiKey # <<>> /\ newKey # <<>>
        /\ MinEditsTable[<<apiKey, newKey>>] \in 1..2

\* C16 away from 0 edits: the same statement whenever the candidate is not
\* the stored key.
C16_SmallEditIsOneOrTwoEditsUnlessEqual ==
    apiKey # newKey => C16_SmallEditIsOneOrTwoEdits

\* C16 at 0 edits: a non-empty candidate equal to the stored key is flagged.
C16_EqualCandidateIsFlagged ==
    (newKey # <<>> /\ apiKey = newKey) => (suspiciousSmallEdit /\ guardPanel)

\* C17: levenshtein(a, b) = 0 exactly when a = b, exactly when firstDiff(a, b)
\* is null; hence wherever the small-change guard panel shows a distance of
\* 1 or 2 there is a divergence report, at an index below the longer of the
\* stored key and the candidate.
C17_DistanceAndDivergenceAgree ==
    /\ call = "levenshtein" =>
          /\ (ret = 0) <=> (args[1] = args[2])
          /\ (ret = 0) <=> (firstDiff(args[1], args[2]) = NoDiff)
    /\ call = "firstDiff" =>
          (ret = NoDiff) <=> (args[1] = args[2])
    /\ (guardPanel /\ distanceFromCurrent \in 1..2) =>
          /\ diff # NoDiff
          /\ diff.index >= 0
          /\ diff.index < Max2(Len(apiKey), Len(newKey))

\* C17 witness: the panel shows 1 edit for a candidate that extends the
\* stored key, and the report points at the first added character.
C17_Witness ==
    /\ open /\ guardPanel /\ distanceFromCurrent = 1
    /\ Len(newKey) = Len(apiKey) + 1
    /\ diff # NoDiff /\ diff.index = Len(apiKey)

\* C17 second witness: both helpers called on equal non-empty strings.
C17_WitnessEqualStrings ==
    /\ call \in {"levenshtein", "firstDiff"}
    /\ args[1] = args[2] /\ Len(args[1]) >= 2

\* A step of the open dialog that edits the candidate or the confirmation.
editStep == open /\ open' /\ (newKey' # newKey \/ confirmKey' # confirmKey)

\* C18: editing the candidate or the confirmation leaves the acknowledgement
\* and the override as they were; the override is switched only in an open
\* dialog showing the small-change guard panel (and reset by an opening);
\* so an override in force stays in force for the next candidate typed
\* (overrideCarried records that), and whenever such a later candidate is a
\* small edit, matching and acknowledged, it is savable with no fresh override.
C18_OverrideOutlivesCandidate ==
    [][ /\ editStep => UNCHANGED <<ackReplace, forceSmallChange>>
        /\ IF forceSmallChange' # forceSmallChange
           THEN \/ open /\ open' /\ guardPanel
                \/ ~open /\ open' /\ ~forceSmallChange'
           ELSE TRUE
        /\ IF overrideCarried
           THEN /\ open /\ forceSmallChange
                /\ (ackReplace /\ matches /\ guardPanel) => canSave
           ELSE TRUE
      ]_vars

\* C18 witness: a small-edit candidate typed after the override was switched
\* on is savable under that override.
C18_Witness ==
    /\ open /\ overrideCarried /\ forceSmallChange
    /\ guardPanel /\ apiKey # newKey /\ canSave

=============================================================================
